---- MODULE Spec2Model ----
(***************************************************************************)
(* Austin City Council meeting monitor: the check cycle of                 *)
(* AustinCouncilMonitor (discover, process, persist, notify) over the      *)
(* meetings table, and the pure text functions it uses.                    *)
(*                                                                         *)
(* Text is a sequence of one-character strings, so that parsing,           *)
(* trimming, truncation and formatting are computed, not assumed.          *)
(* A character outside ASCII is one element named by its code point.       *)
(* Python's None is the empty sequence; an optional timestamp is a         *)
(* sequence of length at most one.                                         *)
(***************************************************************************)
EXTENDS Naturals, Sequences, FiniteSets, TLC

None == <<>>

Some(v) == <<v>>

(***************************************************************************)
(* Characters                                                              *)
(***************************************************************************)
DigitChars == <<"0","1","2","3","4","5","6","7","8","9">>

LowerChars ==
    <<"a","b","c","d","e","f","g","h","i","j","k","l","m",
      "n","o","p","q","r","s","t","u","v","w","x","y","z">>

UpperChars ==
    <<"A","B","C","D","E","F","G","H","I","J","K","L","M",
      "N","O","P","Q","R","S","T","U","V","W","X","Y","Z">>

Range(s) == {s[i] : i \in DOMAIN s}

Digits == Range(DigitChars)

LowerLetters == Range(LowerChars)

UpperLetters == Range(UpperChars)

IsDigit(c) == c \in Digits

IsLower(c) == c \in LowerLetters

\* str.strip() with no argument removes leading and trailing whitespace
Whitespace == {" ", "\t", "\r", "\n"}

DigitVal(c) == (CHOOSE i \in DOMAIN DigitChars : DigitChars[i] = c) - 1

\* str.upper() on one character
UpperChar(c) ==
    IF IsLower(c)
    THEN UpperChars[CHOOSE i \in DOMAIN LowerChars : LowerChars[i] = c]
    ELSE c

Upper(s) == [i \in DOMAIN s |-> UpperChar(s[i])]

\* s[:n]
Prefix(s, n) == SubSeq(s, 1, IF Len(s) < n THEN Len(s) ELSE n)

\* s[n:]  (n counted from 0, as in Python)
Suffix(s, n) == SubSeq(s, n + 1, Len(s))

\* s.endswith(t)
EndsWith(s, t) ==
    /\ Len(t) <= Len(s)
    /\ SubSeq(s, Len(s) - Len(t) + 1, Len(s)) = t

\* t occurs in s starting at position i
OccursAt(s, t, i) ==
    /\ i >= 1
    /\ i + Len(t) - 1 <= Len(s)
    /\ SubSeq(s, i, i + Len(t) - 1) = t

\* str(n) for a natural number
RECURSIVE ToDecimal(_)
ToDecimal(n) ==
    IF n < 10 THEN <<DigitChars[n + 1]>>
    ELSE ToDecimal(n \div 10) \o <<DigitChars[(n % 10) + 1]>>

\* s.split(sep) for a one-character separator: the pieces between separators
SepPositions(s, sep) == {i \in DOMAIN s : s[i] = sep}

NthSep(s, sep, k) ==
    IF k = 0 THEN 0
    ELSE IF k > Cardinality(SepPositions(s, sep)) THEN Len(s) + 1
    ELSE CHOOSE p \in SepPositions(s, sep) :
             Cardinality({q \in SepPositions(s, sep) : q < p}) = k - 1

Split(s, sep) ==
    [k \in 1..(Cardinality(SepPositions(s, sep)) + 1) |->
        SubSeq(s, NthSep(s, sep, k - 1) + 1, NthSep(s, sep, k) - 1)]

\* str.strip()
Strip(s) ==
    IF \A i \in DOMAIN s : s[i] \in Whitespace THEN <<>>
    ELSE SubSeq(s,
             CHOOSE a \in DOMAIN s :
                 /\ s[a] \notin Whitespace
                 /\ \A b \in 1..(a - 1) : s[b] \in Whitespace,
             CHOOSE a \in DOMAIN s :
                 /\ s[a] \notin Whitespace
                 /\ \A b \in (a + 1)..Len(s) : s[b] \in Whitespace)

(***************************************************************************)
(* extract_meeting_id: re.search(r'/(\d{8}-[a-z]+)\.htm', url)             *)
(***************************************************************************)
DateDigits == 8

DotHtm == <<".","h","t","m">>

\* the last position of the run of lower-case letters that starts at i
LetterRunEnd(s, i) ==
    CHOOSE j \in i..Len(s) :
        /\ \A k \in i..j : IsLower(s[k])
        /\ (j = Len(s) \/ ~IsLower(s[j + 1]))

\* the pattern matches with its '/' at position i
MatchesAt(s, i) ==
    /\ i >= 1
    /\ s[i] = "/"
    /\ i + DateDigits + 2 <= Len(s)
    /\ \A k \in 1..DateDigits : IsDigit(s[i + k])
    /\ s[i + DateDigits + 1] = "-"
    /\ IsLower(s[i + DateDigits + 2])
    /\ OccursAt(s, DotHtm, LetterRunEnd(s, i + DateDigits + 2) + 1)

\* re.search(...) is not None
HasMeetingLink(s) == \E i \in DOMAIN s : MatchesAt(s, i)

\* re.search returns the leftmost match; group(1) is the text after the '/'
extract_meeting_id(url) ==
    IF HasMeetingLink(url)
    THEN LET i == CHOOSE a \in DOMAIN url :
                      /\ MatchesAt(url, a)
                      /\ \A b \in 1..(a - 1) : ~MatchesAt(url, b)
         IN  SubSeq(url, i + 1, LetterRunEnd(url, i + DateDigits + 2))
    ELSE None

(***************************************************************************)
(* format_meeting_type                                                     *)
(***************************************************************************)
type_map ==
    <<
      [code |-> <<"r","e","g">>,
       label |->
         <<"R","e","g","u","l","a","r"," ","M","e","e","t","i","n","g">>],
      [code |-> <<"w","r","k">>,
       label |->
         <<"W","o","r","k"," ","S","e","s","s","i","o","n">>],
      [code |-> <<"s","p","e","c">>,
       label |->
         <<"S","p","e","c","i","a","l"," ","C","a","l","l","e","d"," ","M",
           "e","e","t","i","n","g">>],
      [code |-> <<"a","f","c">>,
       label |->
         <<"A","u","d","i","t"," ","&"," ","F","i","n","a","n","c","e"," ",
           "C","o","m","m","i","t","t","e","e">>],
      [code |-> <<"m","o","b","c">>,
       label |->
         <<"M","o","b","i","l","i","t","y"," ","C","o","m","m","i","t","t",
           "e","e">>],
      [code |-> <<"p","h","c">>,
       label |->
         <<"P","u","b","l","i","c"," ","H","e","a","l","t","h"," ","C","o",
           "m","m","i","t","t","e","e">>],
      [code |-> <<"h","p","c">>,
       label |->
         <<"H","o","u","s","i","n","g"," ","&"," ","P","l","a","n","n","i",
           "n","g"," ","C","o","m","m","i","t","t","e","e">>],
      [code |-> <<"c","w","e","p","c">>,
       label |->
         <<"C","l","i","m","a","t","e",","," ","W","a","t","e","r",","," ",
           "E","n","e","r","g","y"," ","&"," ","P","u","b","l","i","c"," ",
           "E","n","t","e","r","p","r","i","s","e","s"," ","C","o","m","m",
           "i","t","t","e","e">>],
      [code |-> <<"p","s","c">>,
       label |->
         <<"P","u","b","l","i","c"," ","S","a","f","e","t","y"," ","C","o",
           "m","m","i","t","t","e","e">>],
      [code |-> <<"e","o","c">>,
       label |->
         <<"E","c","o","n","o","m","i","c"," ","O","p","p","o","r","t","u",
           "n","i","t","y"," ","C","o","m","m","i","t","t","e","e">>]
    >>

\* type_map.get(type_code, type_code.upper())
format_meeting_type(type_code) ==
    IF \E i \in DOMAIN type_map : type_map[i].code = type_code
    THEN type_map[CHOOSE i \in DOMAIN type_map :
                      type_map[i].code = type_code].label
    ELSE Upper(type_code)

(***************************************************************************)
(* datetime.strptime(date_str, '%Y%m%d').strftime('%Y-%m-%d')              *)
(***************************************************************************)
RECURSIVE ToNumber(_)
ToNumber(ds) ==
    IF ds = <<>> THEN 0
    ELSE 10 * ToNumber(SubSeq(ds, 1, Len(ds) - 1)) + DigitVal(ds[Len(ds)])

IsLeap(y) == (y % 4 = 0 /\ y % 100 # 0) \/ y % 400 = 0

DaysInMonth(y, m) ==
    IF m = 2 THEN (IF IsLeap(y) THEN 29 ELSE 28)
    ELSE IF m \in {4, 6, 9, 11} THEN 30 ELSE 31

\* strptime succeeds: four digits of year, two of month, two of day, and the
\* three make a date of the proleptic Gregorian calendar (years 1..9999).
\* The dates used here have years of four significant digits; below 1000
\* the padding of %Y in strftime depends on the C library.
StrptimeOk(ds) ==
    LET y == ToNumber(SubSeq(ds, 1, 4))
        m == ToNumber(SubSeq(ds, 5, 6))
        d == ToNumber(SubSeq(ds, 7, 8))
    IN  /\ Len(ds) = 8
        /\ y >= 1
        /\ m \in 1..12
        /\ d >= 1
        /\ d <= DaysInMonth(y, m)

\* zero-padded decimal of width w
Pad(n, w) ==
    LET t == ToDecimal(n)
    IN  [i \in 1..(w - Len(t)) |-> "0"] \o t

\* as if the date were kept as it is in the id
FormatDateCompact(date_str) == date_str

\* lines 129-133: the formatted date, or the raw digits on ValueError
FormatDate(date_str) ==
    IF StrptimeOk(date_str)
    THEN Pad(ToNumber(SubSeq(date_str, 1, 4)), 4) \o <<"-">>
         \o Pad(ToNumber(SubSeq(date_str, 5, 6)), 2) \o <<"-">>
         \o Pad(ToNumber(SubSeq(date_str, 7, 8)), 2)
    ELSE date_str

(***************************************************************************)
(* _simple_summary                                                         *)
(***************************************************************************)
SummaryHeading ==
    <<"U+1F4CB"," ","K","e","y"," ","a","g","e","n","d","a"," ","i","t","e",
      "m","s",":","\n","\n">>

SummaryDisclaimer ==
    <<"\n","(","N","o","t","e",":"," ","T","h","i","s"," ","i","s"," ","a",
      " ","b","a","s","i","c"," ","e","x","t","r","a","c","t","i","o","n",
      "."," ","A","d","d"," ","G","e","m","i","n","i"," ","A","P","I"," ",
      "k","e","y"," ","f","o","r"," ","A","I","-","p","o","w","e","r","e",
      "d"," ","s","u","m","m","a","r","i","e","s",")">>

AgendaNotAvailable ==
    <<"A","g","e","n","d","a"," ","n","o","t"," ","y","e","t"," ","a","v",
      "a","i","l","a","b","l","e","."," ","C","h","e","c","k"," ","b","a",
      "c","k"," ","l","a","t","e","r",".">>

ExtractFailed ==
    <<"U","n","a","b","l","e"," ","t","o"," ","e","x","t","r","a","c","t",
      " ","t","e","x","t"," ","f","r","o","m"," ","a","g","e","n","d","a",
      " ","P","D","F">>

DownloadFailed ==
    <<"F","a","i","l","e","d"," ","t","o"," ","d","o","w","n","l","o","a",
      "d"," ","a","g","e","n","d","a"," ","P","D","F">>


Ellipsis == <<".",".",".","\n">>

MinLineLen == 20

MaxBullets == 5

MaxBulletLen == 150

\* as if the comparison were >=
MeaningfulAtLeast(line) == Len(Strip(line)) >= MinLineLen

Meaningful(line) == Len(Strip(line)) > MinLineLen

\* line 287: the stripped lines longer than MinLineLen, in order
RECURSIVE KeepMeaningful(_)
KeepMeaningful(lines) ==
    IF lines = <<>> THEN <<>>
    ELSE (IF Meaningful(Head(lines)) THEN <<Strip(Head(lines))>> ELSE <<>>)
         \o KeepMeaningful(Tail(lines))

MeaningfulLines(text) == KeepMeaningful(Split(text, "\n"))

\* lines 290-291: one "i. line[:150]...\n" per line of lines[:5]
RECURSIVE Bullets(_, _)
Bullets(lines, i) ==
    IF i > Len(lines) THEN <<>>
    ELSE ToDecimal(i) \o <<".", " ">> \o Prefix(lines[i], MaxBulletLen)
         \o Ellipsis \o Bullets(lines, i + 1)

simple_summary(text) ==
    SummaryHeading
    \o Bullets(Prefix(MeaningfulLines(text), MaxBullets), 1)
    \o SummaryDisclaimer

(***************************************************************************)
(* urljoin. A URL is its origin (scheme and host, one element) followed by *)
(* the characters of its path. The hrefs joined here carry no scheme.      *)
(***************************************************************************)
InfoCenterUrl ==
    <<"https://www.austintexas.gov",
      "/","d","e","p","a","r","t","m","e","n","t","/","c","i","t","y","-",
      "c","o","u","n","c","i","l","/","c","o","u","n","c","i","l","/","c",
      "o","u","n","c","i","l","_","m","e","e","t","i","n","g","_","i","n",
      "f","o","_","c","e","n","t","e","r",".","h","t","m">>

\* an absolute path replaces the path of the base; a relative one replaces
\* what follows its last '/'
urljoin(base, href) ==
    IF href = <<>> THEN base
    ELSE IF href[1] = "/" THEN <<base[1]>> \o href
    ELSE LET slashes == {i \in DOMAIN base : base[i] = "/"}
         IN  IF slashes = {} THEN <<base[1], "/">> \o href
             ELSE SubSeq(base, 1, CHOOSE a \in slashes :
                                      \A b \in slashes : a >= b) \o href

(***************************************************************************)
(* The environment: what the listing page, the detail pages, the PDF       *)
(* extraction and the Gemini service can answer.                           *)
(***************************************************************************)
MkHref(prefix, digits, code, suffix) ==
    prefix \o <<"/">> \o digits \o <<"-">> \o code \o suffix

JanDate == <<"2","0","2","6","0","1","2","2">>

BadDate == <<"2","0","2","6","1","3","0","1">>

RegCode == <<"r","e","g">>

XyzCode == <<"x","y","z">>

YearDir == <<"2","0","2","6">>

LinkText == <<" ","M","e","e","t","i","n","g"," ">>

\* the <a href> elements the listing page may carry
ListingLinks ==
    { [href |-> MkHref(<<>>, JanDate, RegCode, DotHtm), text |-> LinkText],
      [href |-> MkHref(YearDir, JanDate, RegCode, DotHtm), text |-> LinkText],
      [href |-> MkHref(<<>>, BadDate, XyzCode, DotHtm), text |-> LinkText] }

AgendaPdf == <<"/","a","1",".","p","d","f">>

\* the detail pages: sequences of <a href> elements
DetailPages ==
    { <<>>,
      << [href |-> <<"/","m","i","n",".","p","d","f">>,
          text |-> <<"M","i","n","u","t","e","s">>],
         [href |-> AgendaPdf, text |-> <<"A","g","e","n","d","a">>] >> }

\* a line of 21 characters between blanks, and a short line
AgendaLine ==
    <<" ","I","t","e","m"," ","1",":"," ","a","d","o","p","t"," ","b","u",
      "d","g","e","t","s"," ","\n","C","a","l","l">>

\* what the PDF library can extract
AgendaTexts == {<<>>, AgendaLine}

\* a reply longer than the 1000 characters a Discord field takes
LongReply == <<"*"," ">> \o [i \in 1..1000 |-> "x"] \o <<"!">>

\* response.text of the Gemini service: blank, or a summary
GeminiTexts == {<<" ","\n">>, LongReply}

WebhookUrl == <<"https://discord.example/webhook">>

(***************************************************************************)
(* State                                                                   *)
(***************************************************************************)
Procs == {"cycle1", "cycle2"}

Main == "cycle1"

MaxCycles == 2

MaxFaults == 1

VARIABLES
    listing,        \* the <a href> elements of the Meeting Info Center page
    meetings,       \* the rows of table meetings, in insertion order
    clock,          \* datetime.now()
    gemini_model,   \* self.gemini_model is configured
    PDF_LIBRARY,    \* "pymupdf", "pdfplumber" or None
    webhook,        \* DISCORD_WEBHOOK_URL, the discord_webhook_url argument
    pc,             \* where each run_check_cycle stands
    fetched,        \* what its listing fetch returned
    new_meetings,   \* its candidates
    idx,            \* the candidate its loop is at
    processed,      \* its list of processed meetings
    returned,       \* the value it returned
    prev,           \* history: how the cycle before it ended
    cycles,         \* history: cycles started
    log,            \* history: the calls made, in order
    faults,         \* history: failures of the services so far
    fnIn,           \* input of a pure function under test
    fnOut           \* its result

cycleVars ==
    <<pc, fetched, new_meetings, idx, processed, returned, prev>>

configVars == <<gemini_model, PDF_LIBRARY, webhook>>

fnVars == <<fnIn, fnOut>>

vars ==
    <<listing, meetings, clock, configVars, cycleVars, cycles, log, faults,
      fnVars>>

(***************************************************************************)
(* __init__                                                                *)
(***************************************************************************)
\* lines 51-56: the model is configured iff a key is given and the library
\* was imported
ConfigureGemini(gemini_api_key, GEMINI_AVAILABLE) ==
    gemini_api_key # None /\ GEMINI_AVAILABLE

NoCycle ==
    [pc |-> "idle", fetched |-> [ok |-> FALSE, page |-> <<>>],
     processed |-> 0, rows |-> <<>>]

\* no cycle has run
IdleCycles ==
    /\ pc = [p \in Procs |-> "idle"]
    /\ fetched = [p \in Procs |-> [ok |-> FALSE, page |-> <<>>]]
    /\ new_meetings = [p \in Procs |-> <<>>]
    /\ idx = [p \in Procs |-> 1]
    /\ processed = [p \in Procs |-> <<>>]
    /\ returned = [p \in Procs |-> <<>>]
    /\ prev = [p \in Procs |-> NoCycle]
    /\ cycles = 0
    /\ log = <<>>
    /\ faults = 0

Init ==
    /\ listing = <<>>
    /\ meetings = <<>>
    /\ clock = 1
    /\ \E key \in {None, <<"k">>}, avail \in BOOLEAN :
           gemini_model = ConfigureGemini(key, avail)
    \* lines 12-22: the first library that imports, or None. With pdfplumber
    \* every step is the step with pymupdf (extract_text_from_pdf hands on
    \* what the library gives), so the behaviours are listed once
    /\ PDF_LIBRARY \in {<<"pymupdf">>, None}
    /\ pc = [p \in Procs |-> "idle"]
    /\ webhook \in {None, WebhookUrl}
    /\ fetched = [p \in Procs |-> [ok |-> FALSE, page |-> <<>>]]
    /\ new_meetings = [p \in Procs |-> <<>>]
    /\ idx = [p \in Procs |-> 1]
    /\ processed = [p \in Procs |-> <<>>]
    /\ returned = [p \in Procs |-> <<>>]
    /\ prev = [p \in Procs |-> NoCycle]
    /\ cycles = 0
    /\ log = <<>>
    /\ faults = 0
    /\ fnIn = <<>>
    /\ fnOut = <<>>

(***************************************************************************)
(* The store                                                               *)
(***************************************************************************)
\* as if the SELECT never found a row
NeverExists(rows, meeting_id) == FALSE

\* meeting_exists: SELECT id FROM meetings WHERE id = ?
meeting_exists(rows, meeting_id) ==
    \E i \in DOMAIN rows : rows[i].id = meeting_id

\* as if the table had no primary key
NoPrimaryKey(rows, meeting_id) == FALSE

\* id TEXT PRIMARY KEY: the INSERT of save_meeting raises IntegrityError
PrimaryKeyViolated(rows, meeting_id) ==
    \E i \in DOMAIN rows : rows[i].id = meeting_id

\* the row save_meeting inserts; notified_at is left NULL
NewRow(meeting_data, agenda_url, summary, now) ==
    [id |-> meeting_data.id,
     date |-> meeting_data.date,
     meeting_type |-> meeting_data.meeting_type,
     url |-> meeting_data.url,
     agenda_url |-> agenda_url,
     summary |-> summary,
     discovered_at |-> now,
     notified_at |-> None]

\* as if the UPDATE had no WHERE clause
MarkEveryRow(rows, meeting_id, now) ==
    [i \in DOMAIN rows |-> [rows[i] EXCEPT !.notified_at = Some(now)]]

\* as if the UPDATE also set discovered_at
MarkAndRediscover(rows, meeting_id, now) ==
    [i \in DOMAIN rows |->
        IF rows[i].id = meeting_id
        THEN [rows[i] EXCEPT !.notified_at = Some(now), !.discovered_at = now]
        ELSE rows[i]]

\* UPDATE meetings SET notified_at = ? WHERE id = ?
MarkNotifiedRows(rows, meeting_id, now) ==
    [i \in DOMAIN rows |->
        IF rows[i].id = meeting_id
        THEN [rows[i] EXCEPT !.notified_at = Some(now)]
        ELSE rows[i]]

(***************************************************************************)
(* check_for_new_meetings                                                  *)
(***************************************************************************)
\* as if a link whose digits are no date were skipped
IsNewValidMeetingLink(rows, href) ==
    /\ HasMeetingLink(href)
    /\ extract_meeting_id(href) # None
    /\ ~meeting_exists(rows, extract_meeting_id(href))
    /\ StrptimeOk(Prefix(extract_meeting_id(href), 8))

\* lines 119-122: the link is a meeting link whose id is not stored
IsNewMeetingLink(rows, href) ==
    /\ HasMeetingLink(href)
    /\ extract_meeting_id(href) # None
    /\ ~meeting_exists(rows, extract_meeting_id(href))

\* lines 123-141
MeetingData(link) ==
    LET meeting_id == extract_meeting_id(link.href)
    IN  [id |-> meeting_id,
         date |-> FormatDate(Prefix(meeting_id, 8)),
         meeting_type |-> format_meeting_type(Suffix(meeting_id, 9)),
         url |-> urljoin(InfoCenterUrl, link.href),
         link_text |-> Strip(link.text)]

\* lines 112-149: one candidate per new meeting link, in page order
RECURSIVE check_for_new_meetings(_, _)
check_for_new_meetings(links, rows) ==
    IF links = <<>> THEN <<>>
    ELSE (IF IsNewMeetingLink(rows, Head(links).href)
          THEN <<MeetingData(Head(links))>>
          ELSE <<>>)
         \o check_for_new_meetings(Tail(links), rows)

\* as if the page were parsed although the fetch raised
DiscoverDespiteError(fetch_ok, links, rows) ==
    check_for_new_meetings(links, rows)

\* lines 107-153: the candidates, [] when the fetch of the listing raises
DiscoverMeetings(fetch_ok, links, rows) ==
    IF fetch_ok THEN check_for_new_meetings(links, rows) ELSE <<>>

(***************************************************************************)
(* process_new_meeting and what it calls                                   *)
(***************************************************************************)
LowerChar(c) ==
    IF c \in UpperLetters
    THEN LowerChars[CHOOSE i \in DOMAIN UpperChars : UpperChars[i] = c]
    ELSE c

Lower(s) == [i \in DOMAIN s |-> LowerChar(s[i])]

Contains(s, t) == \E i \in 1..(Len(s) + 1) : OccursAt(s, t, i)

AgendaWord == <<"a","g","e","n","d","a">>

DotPdf == <<".","p","d","f">>

DocumentCfm ==
    <<"d","o","c","u","m","e","n","t",".","c","f","m","?","i","d","=">>

\* line 195
IsAgendaLink(link) ==
    /\ Contains(Lower(link.text), AgendaWord)
    /\ (EndsWith(link.href, DotPdf) \/ Contains(link.href, DocumentCfm))

\* as if the loop kept the last agenda link it saw
get_last_agenda_url(fetch_ok, page, meeting_url) ==
    LET hits == {i \in DOMAIN page : IsAgendaLink(page[i])}
    IN  IF fetch_ok /\ hits # {}
        THEN urljoin(meeting_url,
                     page[CHOOSE i \in hits : \A j \in hits : i >= j].href)
        ELSE None

\* get_agenda_url: the first agenda link of the detail page, None when the
\* fetch raises or no link qualifies
get_agenda_url(fetch_ok, page, meeting_url) ==
    LET hits == {i \in DOMAIN page : IsAgendaLink(page[i])}
    IN  IF fetch_ok /\ hits # {}
        THEN urljoin(meeting_url,
                     page[CHOOSE i \in hits : \A j \in hits : i <= j].href)
        ELSE None

\* extract_text_from_pdf: None without a library, else what the library
\* gives (None when it raises)
extract_text_from_pdf(library, extracted) ==
    IF library = None THEN None ELSE extracted

\* as if an error of generate_content were not caught
SummarizeNoFallback(model, agenda_text, reply) ==
    IF ~model THEN simple_summary(agenda_text) ELSE Strip(reply.text)

\* summarize_agenda: reply is the outcome of generate_content
summarize_agenda(model, agenda_text, reply) ==
    IF ~model THEN simple_summary(agenda_text)
    ELSE IF reply.ok THEN Strip(reply.text)
    ELSE simple_summary(agenda_text)

\* as if the download were tried without an agenda_url
SummaryNoAgendaCheck(model, agenda_url, download_ok, agenda_text, reply) ==
    IF agenda_url = None \/ ~download_ok THEN DownloadFailed
    ELSE IF agenda_text # <<>>
         THEN summarize_agenda(model, agenda_text, reply)
         ELSE ExtractFailed

\* as if a failed download went on to the extraction
SummaryNoDownloadCheck(model, agenda_url, download_ok, agenda_text, reply) ==
    IF agenda_url = None THEN AgendaNotAvailable
    ELSE IF agenda_text # <<>>
         THEN summarize_agenda(model, agenda_text, reply)
         ELSE ExtractFailed

\* lines 308-333: the summary process_new_meeting persists
MeetingSummary(model, agenda_url, download_ok, agenda_text, reply) ==
    IF agenda_url = None THEN AgendaNotAvailable
    ELSE IF ~download_ok THEN DownloadFailed
    ELSE IF agenda_text # <<>>
         THEN summarize_agenda(model, agenda_text, reply)
         ELSE ExtractFailed

\* generate_content raises
GeminiError == [ok |-> FALSE, text |-> <<>>]

GeminiReplies == {GeminiError} \cup {[ok |-> TRUE, text |-> t] : t \in GeminiTexts}

ResolveOutcome(fetch_ok, agenda_url) ==
    IF ~fetch_ok THEN "transport_error"
    ELSE IF agenda_url = None THEN "no_link" ELSE "found"

\* line 317: download_pdf is called with an agenda_url only
DownloadOutcome(agenda_url, download_ok) ==
    IF agenda_url = None THEN "skipped"
    ELSE IF download_ok THEN "ok" ELSE "failed"

\* lines 319-321: extract_text_from_pdf is called after a download only;
\* None and '' both count as no text
ExtractOutcome(agenda_url, download_ok, agenda_text) ==
    IF agenda_url = None \/ ~download_ok THEN "skipped"
    ELSE IF agenda_text # <<>> THEN "text" ELSE "no_text"

\* lines 321-323: summarize_agenda is called inside the three tests
SummarizerCalled(agenda_url, download_ok, agenda_text) ==
    agenda_url # None /\ download_ok /\ agenda_text # <<>>

Running(p) == pc[p] \in {"scan", "process", "notify", "mark", "sleep"}

(***************************************************************************)
(* The listing page gains a link it does not carry yet (between cycles: a  *)
(* cycle reads the page once, when it starts).                             *)
(***************************************************************************)
Publish ==
    /\ cycles < MaxCycles
    /\ \A p \in Procs : ~Running(p)
    /\ \E link \in ListingLinks \ Range(listing) :
           listing' = Append(listing, link)
    /\ UNCHANGED <<meetings, clock, configVars, cycleVars, cycles, log,
                   faults, fnVars>>

(***************************************************************************)
(* run_check_cycle, lines 402-406: discover; return [] with no candidates  *)
(***************************************************************************)
Discover(p) ==
    /\ pc[p] \in {"idle", "done", "raised"}
    /\ cycles < MaxCycles
    /\ \E fetch_ok \in BOOLEAN :
         LET found == DiscoverMeetings(fetch_ok, listing, meetings)
         IN  /\ fetch_ok \/ faults < MaxFaults
             /\ faults' = IF fetch_ok THEN faults ELSE faults + 1
             /\ fetched' = [fetched EXCEPT
                               ![p] = [ok |-> fetch_ok,
                                       page |-> IF fetch_ok THEN listing
                                                ELSE <<>>]]
             /\ new_meetings' = [new_meetings EXCEPT ![p] = found]
             /\ pc' = [pc EXCEPT
                          ![p] = IF found = <<>> THEN "done" ELSE "process"]
    /\ prev' = [prev EXCEPT
                   ![p] = [pc |-> pc[p], fetched |-> fetched[p],
                           processed |-> Len(processed[p]),
                           rows |-> meetings]]
    /\ idx' = [idx EXCEPT ![p] = 1]
    /\ processed' = [processed EXCEPT ![p] = <<>>]
    /\ returned' = [returned EXCEPT ![p] = <<>>]
    /\ cycles' = cycles + 1
    /\ UNCHANGED <<listing, meetings, clock, configVars, log, fnVars>>

(***************************************************************************)
(* lines 410-411: process_new_meeting on the next candidate. The INSERT    *)
(* of save_meeting raises on a stored id and the exception leaves          *)
(* run_check_cycle.                                                        *)
(***************************************************************************)
\* the services process_new_meeting does not reach answer nothing
Unreached(download_ok, extracted, reply) ==
    download_ok /\ extracted = None /\ reply = GeminiError

\* the failures among the answers process_new_meeting got
PipelineFaults(fetch_ok, agenda_url, download_ok, agenda_text, reply) ==
    IF ~fetch_ok THEN 1
    ELSE IF agenda_url = None THEN 0
    ELSE IF ~download_ok THEN 1
    ELSE IF PDF_LIBRARY = None THEN 0
    ELSE IF agenda_text = <<>> THEN 1
    ELSE IF ~gemini_model THEN 0
    ELSE IF reply.ok /\ Strip(reply.text) # <<>> THEN 0 ELSE 1

ProcessMeeting(p) ==
    /\ pc[p] = "process"
    /\ \E fetch_ok \in BOOLEAN, page \in DetailPages :
         /\ fetch_ok \/ page = <<>>
         /\ LET meeting_data == new_meetings[p][idx[p]]
                agenda_url ==
                    get_agenda_url(fetch_ok, page, meeting_data.url)
                raised == PrimaryKeyViolated(meetings, meeting_data.id)
            IN  \E download_ok \in BOOLEAN,
                   extracted \in AgendaTexts \cup {None},
                   reply \in GeminiReplies :
                  /\ agenda_url # None
                     \/ Unreached(download_ok, extracted, reply)
                  /\ download_ok \/ Unreached(TRUE, extracted, reply)
                  /\ (extracted # None /\ gemini_model /\ PDF_LIBRARY # None)
                     \/ reply = GeminiError
                  /\ LET agenda_text ==
                             extract_text_from_pdf(PDF_LIBRARY, extracted)
                         summary ==
                             MeetingSummary(gemini_model, agenda_url,
                                            download_ok, agenda_text, reply)
                         failed ==
                             PipelineFaults(fetch_ok, agenda_url,
                                            download_ok, agenda_text, reply)
                     IN  /\ faults + failed <= MaxFaults
                         /\ faults' = faults + failed
                         /\ log' = Append(log,
                                [op |-> "process", proc |-> p,
                                 cycle |-> cycles, id |-> meeting_data.id,
                                 resolve |->
                                     ResolveOutcome(fetch_ok, agenda_url),
                                 download |->
                                     DownloadOutcome(agenda_url, download_ok),
                                 extract |->
                                     ExtractOutcome(agenda_url, download_ok,
                                                    agenda_text),
                                 summarized |->
                                     SummarizerCalled(agenda_url, download_ok,
                                                      agenda_text),
                                 saved |-> ~raised])
                         /\ IF raised
                            THEN /\ pc' = [pc EXCEPT ![p] = "raised"]
                                 /\ UNCHANGED <<meetings, clock, processed>>
                            ELSE /\ meetings' = Append(meetings,
                                        NewRow(meeting_data, agenda_url,
                                               summary, clock))
                                 /\ clock' = clock + 1
                                 /\ processed' = [processed EXCEPT
                                        ![p] = Append(@,
                                            [id |-> meeting_data.id,
                                             date |-> meeting_data.date,
                                             meeting_type |->
                                                 meeting_data.meeting_type,
                                             url |-> meeting_data.url,
                                             link_text |->
                                                 meeting_data.link_text,
                                             agenda_url |-> agenda_url,
                                             summary |-> summary])]
                                 /\ pc' = [pc EXCEPT
                                        ![p] = IF webhook # None
                                               THEN "notify" ELSE "sleep"]
    /\ UNCHANGED <<listing, configVars, fetched, new_meetings, idx,
                   returned, prev, cycles, fnVars>>

(***************************************************************************)
(* line 415: send_discord_notification; its result is not looked at        *)
(***************************************************************************)
DiscordLimit == 1000

\* as if the field took the end of the summary
DiscordTail(summary) ==
    IF Len(summary) <= DiscordLimit THEN summary
    ELSE Suffix(summary, Len(summary) - DiscordLimit)

\* line 376: the Summary field of the embed, meeting_info['summary'][:1000]
DiscordValue(summary) == Prefix(summary, DiscordLimit)

\* send_discord_notification returns True iff the POST succeeds
send_discord_notification(post_ok) == post_ok

\* as if a failed POST raised out of send_discord_notification
NotifyRaises(p) ==
    /\ pc[p] = "notify"
    /\ \E post_ok \in BOOLEAN :
         /\ post_ok \/ faults < MaxFaults
         /\ faults' = IF post_ok THEN faults ELSE faults + 1
         /\ log' = Append(log,
                [op |-> "send", proc |-> p, cycle |-> cycles,
                 id |-> new_meetings[p][idx[p]].id,
                 value |-> DiscordValue(processed[p][idx[p]].summary),
                 ok |-> post_ok])
         /\ pc' = [pc EXCEPT ![p] = IF post_ok THEN "mark" ELSE "raised"]
    /\ UNCHANGED <<listing, meetings, clock, configVars, fetched,
                   new_meetings, idx, processed, returned, prev, cycles,
                   fnVars>>

Notify(p) ==
    /\ pc[p] = "notify"
    /\ \E post_ok \in BOOLEAN :
         /\ post_ok \/ faults < MaxFaults
         /\ faults' = IF post_ok THEN faults ELSE faults + 1
         /\ log' = Append(log,
                [op |-> "send", proc |-> p, cycle |-> cycles,
                 id |-> new_meetings[p][idx[p]].id,
                 value |-> DiscordValue(processed[p][idx[p]].summary),
                 ok |-> send_discord_notification(post_ok)])
    /\ pc' = [pc EXCEPT ![p] = "mark"]
    /\ UNCHANGED <<listing, meetings, clock, configVars, fetched,
                   new_meetings, idx, processed, returned, prev, cycles,
                   fnVars>>

(***************************************************************************)
(* lines 417-425: UPDATE meetings SET notified_at                          *)
(***************************************************************************)
MarkNotified(p) ==
    /\ pc[p] = "mark"
    /\ meetings' = MarkNotifiedRows(meetings, new_meetings[p][idx[p]].id,
                                    clock)
    /\ clock' = clock + 1
    /\ log' = Append(log,
           [op |-> "mark", proc |-> p, cycle |-> cycles,
            id |-> new_meetings[p][idx[p]].id, at |-> clock])
    /\ pc' = [pc EXCEPT ![p] = "sleep"]
    /\ UNCHANGED <<listing, configVars, fetched, new_meetings, idx,
                   processed, returned, prev, cycles, faults, fnVars>>

(***************************************************************************)
(* line 427: time.sleep(2), then the next candidate or the return of       *)
(* line 434                                                                *)
(***************************************************************************)
\* as if the cycle returned only the meeting it processed last
ReturnLast(p) ==
    /\ pc[p] = "sleep"
    /\ log' = Append(log, [op |-> "sleep", proc |-> p, cycle |-> cycles])
    /\ IF idx[p] < Len(new_meetings[p])
       THEN /\ idx' = [idx EXCEPT ![p] = @ + 1]
            /\ pc' = [pc EXCEPT ![p] = "process"]
            /\ UNCHANGED returned
       ELSE /\ pc' = [pc EXCEPT ![p] = "done"]
            /\ returned' = [returned EXCEPT
                                ![p] = <<processed[p][Len(processed[p])]>>]
            /\ UNCHANGED idx
    /\ UNCHANGED <<listing, meetings, clock, configVars, fetched,
                   new_meetings, processed, prev, cycles, faults, fnVars>>

\* as if the loop went on without time.sleep
NoSleep(p) ==
    /\ pc[p] = "sleep"
    /\ IF idx[p] < Len(new_meetings[p])
       THEN /\ idx' = [idx EXCEPT ![p] = @ + 1]
            /\ pc' = [pc EXCEPT ![p] = "process"]
            /\ UNCHANGED returned
       ELSE /\ pc' = [pc EXCEPT ![p] = "done"]
            /\ returned' = [returned EXCEPT ![p] = processed[p]]
            /\ UNCHANGED idx
    /\ UNCHANGED <<listing, meetings, clock, configVars, fetched,
                   new_meetings, processed, prev, cycles, log, faults,
                   fnVars>>

Sleep(p) ==
    /\ pc[p] = "sleep"
    /\ log' = Append(log, [op |-> "sleep", proc |-> p, cycle |-> cycles])
    /\ IF idx[p] < Len(new_meetings[p])
       THEN /\ idx' = [idx EXCEPT ![p] = @ + 1]
            /\ pc' = [pc EXCEPT ![p] = "process"]
            /\ UNCHANGED returned
       ELSE /\ pc' = [pc EXCEPT ![p] = "done"]
            /\ returned' = [returned EXCEPT ![p] = processed[p]]
            /\ UNCHANGED idx
    /\ UNCHANGED <<listing, meetings, clock, configVars, fetched,
                   new_meetings, processed, prev, cycles, faults, fnVars>>

Next ==
    \/ Publish
    \/ Discover(Main)
    \/ ProcessMeeting(Main)
    \/ Notify(Main)
    \/ MarkNotified(Main)
    \/ Sleep(Main)

Spec == Init /\ [][Next]_vars

(***************************************************************************)
(* Two monitors on one database file and one listing page. Each runs       *)
(* run_check_cycle; a step of one is a statement that reads or writes the  *)
(* table, with what precedes it. check_for_new_meetings runs one SELECT    *)
(* per meeting link (line 122), so the other monitor's INSERT can fall     *)
(* between two of them: discovery is the fetch and then one step per link. *)
(***************************************************************************)
\* lines 107-112: fetch the listing page. A monitor process runs one cycle
\* (line 488) and ends
FetchListing(p) ==
    /\ pc[p] = "idle"
    /\ \E fetch_ok \in BOOLEAN :
         /\ fetch_ok \/ faults < MaxFaults
         /\ faults' = IF fetch_ok THEN faults ELSE faults + 1
         /\ fetched' = [fetched EXCEPT
                           ![p] = [ok |-> fetch_ok,
                                   page |-> IF fetch_ok THEN listing
                                            ELSE <<>>]]
         /\ pc' = [pc EXCEPT
                      ![p] = IF fetch_ok /\ listing # <<>> THEN "scan"
                             ELSE "done"]
    /\ prev' = [prev EXCEPT
                   ![p] = [pc |-> pc[p], fetched |-> fetched[p],
                           processed |-> Len(processed[p]),
                           rows |-> meetings]]
    /\ new_meetings' = [new_meetings EXCEPT ![p] = <<>>]
    /\ idx' = [idx EXCEPT ![p] = 1]
    /\ processed' = [processed EXCEPT ![p] = <<>>]
    /\ returned' = [returned EXCEPT ![p] = <<>>]
    /\ cycles' = cycles + 1
    /\ UNCHANGED <<listing, meetings, clock, configVars, log, fnVars>>

\* lines 115-144: the next link of the page; after the last one the loop
\* of run_check_cycle starts, or the cycle returns [] (lines 404-406)
ScanLink(p) ==
    /\ pc[p] = "scan"
    /\ LET link == fetched[p].page[idx[p]]
           found == IF IsNewMeetingLink(meetings, link.href)
                    THEN Append(new_meetings[p], MeetingData(link))
                    ELSE new_meetings[p]
       IN  /\ new_meetings' = [new_meetings EXCEPT ![p] = found]
           /\ IF idx[p] < Len(fetched[p].page)
              THEN /\ idx' = [idx EXCEPT ![p] = @ + 1]
                   /\ UNCHANGED pc
              ELSE /\ idx' = [idx EXCEPT ![p] = 1]
                   /\ pc' = [pc EXCEPT
                                ![p] = IF found = <<>> THEN "done"
                                       ELSE "process"]
    /\ UNCHANGED <<listing, meetings, clock, configVars, fetched, processed,
                   returned, prev, cycles, log, faults, fnVars>>

\* the listing pages the two monitors read: the meeting link, followed by
\* a second link of the same id or by a link that is no meeting link
ConcurrentListings ==
    {s \in [1..2 -> ListingLinks] : /\ s[1].href = MkHref(<<>>, JanDate, RegCode, DotHtm)
                                    /\ s[1] # s[2]}

\* both monitors are started with the webhook, with a PDF library and
\* without a Gemini key
InitConcurrent ==
    /\ IdleCycles
    /\ listing \in ConcurrentListings
    /\ meetings = <<>>
    /\ clock = 1
    /\ gemini_model = ConfigureGemini(None, TRUE)
    /\ PDF_LIBRARY = <<"pymupdf">>
    /\ webhook = WebhookUrl
    /\ fnIn = <<>>
    /\ fnOut = <<>>

NextConcurrent ==
    \/ \E p \in Procs : FetchListing(p)
    \/ \E p \in Procs : ScanLink(p)
    \/ \E p \in Procs : ProcessMeeting(p)
    \/ \E p \in Procs : Notify(p)
    \/ \E p \in Procs : MarkNotified(p)
    \/ \E p \in Procs : Sleep(p)

SpecConcurrent == InitConcurrent /\ [][NextConcurrent]_vars

(***************************************************************************)
(* The pure functions on their own: the input is drawn at the start and    *)
(* one step applies the function. The rest of the system stays idle.       *)
(***************************************************************************)
IdleSystem ==
    /\ listing = <<>>
    /\ meetings = <<>>
    /\ clock = 1
    /\ gemini_model = FALSE
    /\ PDF_LIBRARY = None
    /\ webhook = None
    /\ pc = [p \in Procs |-> "idle"]
    /\ fetched = [p \in Procs |-> [ok |-> FALSE, page |-> <<>>]]
    /\ new_meetings = [p \in Procs |-> <<>>]
    /\ idx = [p \in Procs |-> 1]
    /\ processed = [p \in Procs |-> <<>>]
    /\ returned = [p \in Procs |-> <<>>]
    /\ prev = [p \in Procs |-> NoCycle]
    /\ cycles = 0
    /\ log = <<>>
    /\ faults = 0

systemVars ==
    <<listing, meetings, clock, configVars, cycleVars, cycles, log, faults>>

(***************************************************************************)
(* _simple_summary on agenda texts. A text is described by its lines: the  *)
(* blanks before, the length of the body, the blanks after. The body of    *)
(* line i is the i-th lower-case letter repeated and a closing '!'.        *)
(***************************************************************************)
MaxLines == 7

LineKinds ==
    { [lead |-> 1, body |-> 20, trail |-> 1],
      [lead |-> 2, body |-> 21, trail |-> 0],
      [lead |-> 0, body |-> 151, trail |-> 1] }

LineBody(i, n) == [k \in 1..n |-> IF k = n THEN "!" ELSE LowerChars[i]]

RenderLine(kind, i) ==
    [k \in 1..kind.lead |-> " "] \o LineBody(i, kind.body)
    \o [k \in 1..kind.trail |-> "\r"]

RECURSIVE RenderFrom(_, _)
RenderFrom(kinds, i) ==
    IF i > Len(kinds) THEN <<>>
    ELSE (IF i = 1 THEN <<>> ELSE <<"\n">>)
         \o RenderLine(kinds[i], i) \o RenderFrom(kinds, i + 1)

RenderText(kinds) == RenderFrom(kinds, 1)

SummaryInputs == UNION {[1..n -> LineKinds] : n \in 0..MaxLines}

InitSummary ==
    /\ IdleSystem
    /\ fnIn \in SummaryInputs
    /\ fnOut = None

ApplySimpleSummary ==
    /\ fnOut = None
    /\ fnOut' = Some(simple_summary(RenderText(fnIn)))
    /\ UNCHANGED <<systemVars, fnIn>>

SpecSummary == InitSummary /\ [][ApplySimpleSummary]_vars

(***************************************************************************)
(* check_for_new_meetings on a listing of one link, with an empty table.   *)
(* The href is put together from a prefix, eight digits, a type code and   *)
(* a suffix.                                                               *)
(***************************************************************************)
LeapDate == <<"2","0","2","4","0","2","2","9">>

ParseDates ==
    { JanDate, LeapDate, BadDate,
      <<"2","0","2","5","0","2","2","9">>,
      <<"2","0","2","6","0","4","3","1">>,
      <<"2","0","2","6","0","1","0","0">> }

ParseCodes ==
    {type_map[i].code : i \in DOMAIN type_map} \cup {XyzCode, <<>>}

ParsePrefixes == {<<>>, YearDir, <<"/","c","o","u","n","c","i","l">>}

ParseSuffixes == {DotHtm, DotHtm \o <<"l">>, <<".","p","d","f">>}

InitParse ==
    /\ IdleSystem
    /\ fnIn \in [prefix : ParsePrefixes, digits : ParseDates,
                 code : ParseCodes, suffix : ParseSuffixes]
    /\ fnOut = None

ApplyParse ==
    /\ fnOut = None
    /\ fnOut' = Some(check_for_new_meetings(
                    <<[href |-> MkHref(fnIn.prefix, fnIn.digits, fnIn.code,
                                       fnIn.suffix),
                       text |-> LinkText]>>, <<>>))
    /\ UNCHANGED <<systemVars, fnIn>>

SpecParse == InitParse /\ [][ApplyParse]_vars

Min(a, b) == IF a <= b THEN a ELSE b

(***************************************************************************)
(* summarize_agenda, line 272: the agenda text put into the prompt. An     *)
(* agenda of 150,000 characters is described by its runs: a character and  *)
(* how often it is repeated.                                               *)
(***************************************************************************)
ContextBudget == 100000

MaxRuns == 3

RunChars == {"a", "b"}

RunCounts == {1, 49999, 50000, 100000}

RECURSIVE RunsLen(_)
RunsLen(runs) ==
    IF runs = <<>> THEN 0 ELSE Head(runs).count + RunsLen(Tail(runs))

\* as if the whole text went into the prompt
SliceNothing(runs, n) == runs

\* text[:n] on a text given by its runs
RECURSIVE Slice(_, _)
Slice(runs, n) ==
    IF runs = <<>> \/ n = 0 THEN <<>>
    ELSE IF Head(runs).count <= n
         THEN <<Head(runs)>> \o Slice(Tail(runs), n - Head(runs).count)
         ELSE <<[char |-> Head(runs).char, count |-> n]>>

\* lines 263-274: the agenda text generate_content receives, None when
\* summarize_agenda returns before it builds a prompt
PromptAgendaText(model, agenda_text) ==
    IF ~model THEN None ELSE Some(Slice(agenda_text, ContextBudget))

TruncateInputs ==
    UNION {[1..n -> [char : RunChars, count : RunCounts]] : n \in 0..MaxRuns}

\* the system idle, whatever summarizer was configured
IdleMonitor ==
    /\ listing = <<>>
    /\ meetings = <<>>
    /\ clock = 1
    /\ PDF_LIBRARY = None
    /\ webhook = None
    /\ pc = [p \in Procs |-> "idle"]
    /\ fetched = [p \in Procs |-> [ok |-> FALSE, page |-> <<>>]]
    /\ new_meetings = [p \in Procs |-> <<>>]
    /\ idx = [p \in Procs |-> 1]
    /\ processed = [p \in Procs |-> <<>>]
    /\ returned = [p \in Procs |-> <<>>]
    /\ prev = [p \in Procs |-> NoCycle]
    /\ cycles = 0
    /\ log = <<>>
    /\ faults = 0

InitTruncate ==
    /\ IdleMonitor
    /\ \E key \in {None, <<"k">>}, avail \in BOOLEAN :
           gemini_model = ConfigureGemini(key, avail)
    /\ fnIn \in TruncateInputs
    /\ fnOut = None

ApplyTruncate ==
    /\ fnOut = None
    /\ fnOut' = Some(PromptAgendaText(gemini_model, fnIn))
    /\ UNCHANGED <<systemVars, fnIn>>

SpecTruncate == InitTruncate /\ [][ApplyTruncate]_vars

(***************************************************************************)
(* summarize_agenda on a monitor constructed with or without a key, with   *)
(* or without the library, and every outcome of generate_content.          *)
(***************************************************************************)
MaxAgendaLines == 2

AgendaInputs == UNION {[1..n -> LineKinds] : n \in 1..MaxAgendaLines}

\* lines 263-274: generate_content is reached iff a model was configured
CallsGemini(model) == model

InitSummarize ==
    /\ IdleMonitor
    /\ fnIn \in [key : {None, <<"k">>}, avail : BOOLEAN,
                 kinds : AgendaInputs, reply : GeminiReplies]
    /\ gemini_model = ConfigureGemini(fnIn.key, fnIn.avail)
    /\ fnOut = None

ApplySummarize ==
    /\ fnOut = None
    /\ fnOut' = Some([called |-> CallsGemini(gemini_model),
                      result |-> summarize_agenda(gemini_model,
                                     RenderText(fnIn.kinds), fnIn.reply)])
    /\ UNCHANGED <<systemVars, fnIn>>

SpecSummarize == InitSummarize /\ [][ApplySummarize]_vars

(***************************************************************************)
(* Reading the table: get_recent_meetings of the monitor and get_meetings  *)
(* of the dashboard. Both run one SELECT ... ORDER BY date DESC.           *)
(***************************************************************************)
\* date is a TEXT column: ORDER BY compares it byte by byte, and '-' sorts
\* before every digit
DateCharRank(c) == IF c = "-" THEN 0 ELSE DigitVal(c) + 1

\* a < b as TEXT values
RECURSIVE TextLess(_, _)
TextLess(a, b) ==
    IF b = <<>> THEN FALSE
    ELSE IF a = <<>> THEN TRUE
    ELSE IF Head(a) = Head(b) THEN TextLess(Tail(a), Tail(b))
    ELSE DateCharRank(Head(a)) < DateCharRank(Head(b))

\* text LIKE pattern: '%' stands for any run of characters, '_' for any one
\* character, letters match without regard to case
RECURSIVE Like(_, _)
Like(text, pattern) ==
    IF pattern = <<>> THEN text = <<>>
    ELSE IF Head(pattern) = "%"
         THEN \E k \in 0..Len(text) :
                  Like(SubSeq(text, k + 1, Len(text)), Tail(pattern))
         ELSE /\ text # <<>>
              /\ \/ Head(pattern) = "_"
                 \/ LowerChar(Head(text)) = LowerChar(Head(pattern))
              /\ Like(Tail(text), Tail(pattern))

\* lines 76-78: AND (meeting_type LIKE ? OR summary LIKE ?)
MatchesSearch(row, search_term) ==
    LET pattern == <<"%">> \o search_term \o <<"%">>
    IN  Like(row.meeting_type, pattern) \/ Like(row.summary, pattern)

\* the rows the WHERE clause keeps, in table order
RECURSIVE Where(_, _)
Where(rows, search_term) ==
    IF rows = <<>> THEN <<>>
    ELSE (IF search_term = None \/ MatchesSearch(Head(rows), search_term)
          THEN <<Head(rows)>> ELSE <<>>)
         \o Where(Tail(rows), search_term)

\* ORDER BY date DESC: the first row with the greatest date, then the rest;
\* rows of one date come out in table order
RECURSIVE OrderByDateDesc(_)
OrderByDateDesc(rows) ==
    IF rows = <<>> THEN <<>>
    ELSE LET top == CHOOSE i \in DOMAIN rows :
                        /\ \A j \in DOMAIN rows :
                               ~TextLess(rows[i].date, rows[j].date)
                        /\ \A j \in 1..(i - 1) :
                               TextLess(rows[j].date, rows[i].date)
         IN  <<rows[top]>>
             \o OrderByDateDesc(SubSeq(rows, 1, top - 1)
                                \o SubSeq(rows, top + 1, Len(rows)))

\* the seven columns of the SELECT
Selected(row) ==
    [id |-> row.id, date |-> row.date, meeting_type |-> row.meeting_type,
     url |-> row.url, agenda_url |-> row.agenda_url,
     summary |-> row.summary, discovered_at |-> row.discovered_at]

\* get_recent_meetings(limit): LIMIT ?
get_recent_meetings(rows, limit) ==
    LET ordered == OrderByDateDesc(rows)
    IN  [i \in 1..Min(limit, Len(ordered)) |-> Selected(ordered[i])]

\* get_meetings(limit, search_term): [] without a database file; the WHERE
\* clause only with a search term; LIMIT only with a limit that is not 0
get_meetings(db_exists, rows, limit, search_term) ==
    IF ~db_exists THEN <<>>
    ELSE LET ordered == OrderByDateDesc(Where(rows, search_term))
             n == IF limit = None \/ limit = Some(0) THEN Len(ordered)
                  ELSE Min(limit[1], Len(ordered))
         IN  [i \in 1..n |-> Selected(ordered[i])]

\* the table after earlier cycles: rows as process_new_meeting saves them
MaxRows == 3

MaxLimit == 2

DefaultLimit == 10

WrkCode == <<"w","r","k">>

AgendaPage == CHOOSE page \in DetailPages : page # <<>>

BudgetReply == [ok |-> TRUE, text |-> <<" ","*"," ","B","u","d","g","e","t"," ">>]

SavedMeetings ==
    { [digits |-> JanDate, code |-> RegCode, page |-> <<>>,
       download_ok |-> TRUE, reply |-> GeminiError],
      [digits |-> JanDate, code |-> WrkCode, page |-> AgendaPage,
       download_ok |-> TRUE, reply |-> BudgetReply],
      [digits |-> BadDate, code |-> XyzCode, page |-> AgendaPage,
       download_ok |-> FALSE, reply |-> GeminiError],
      [digits |-> LeapDate, code |-> RegCode, page |-> AgendaPage,
       download_ok |-> TRUE, reply |-> GeminiError] }

SavedRow(m, now) ==
    LET meeting_data ==
            MeetingData([href |-> MkHref(<<>>, m.digits, m.code, DotHtm),
                         text |-> LinkText])
        agenda_url == get_agenda_url(TRUE, m.page, meeting_data.url)
    IN  NewRow(meeting_data, agenda_url,
               MeetingSummary(TRUE, agenda_url, m.download_ok, AgendaLine,
                              m.reply), now)

SavedTables ==
    {[i \in DOMAIN s |-> SavedRow(s[i], i)] :
        s \in {t \in UNION {[1..n -> SavedMeetings] : n \in 0..MaxRows} :
                  \A i, j \in DOMAIN t : i # j => t[i] # t[j]}}

SearchTerms ==
    { None, <<"b","u","d","g","e","t">>, <<"A","g","e","n","d","a">>,
      <<"_">>, <<"%">> }

InitList ==
    /\ IdleCycles
    /\ listing = <<>>
    /\ meetings \in SavedTables
    /\ clock = Len(meetings) + 1
    /\ gemini_model = TRUE
    /\ PDF_LIBRARY = <<"pymupdf">>
    /\ webhook = None
    /\ fnIn \in [db_exists : BOOLEAN,
                 limit : {None} \cup {Some(n) : n \in 1..MaxLimit},
                 search_term : SearchTerms]
    /\ fnIn.db_exists \/ meetings = <<>>
    /\ fnOut = None

\* the monitor reads its table
ListRecent ==
    /\ fnOut = None
    /\ fnIn.db_exists
    /\ fnIn.search_term = None
    /\ fnOut' = Some(get_recent_meetings(meetings,
                         IF fnIn.limit = None THEN DefaultLimit
                         ELSE fnIn.limit[1]))
    /\ UNCHANGED <<systemVars, fnIn>>

\* the dashboard reads the table
ListDashboard ==
    /\ fnOut = None
    /\ fnOut' = Some(get_meetings(fnIn.db_exists, meetings, fnIn.limit,
                                  fnIn.search_term))
    /\ UNCHANGED <<systemVars, fnIn>>

NextList == ListRecent \/ ListDashboard

SpecList == InitList /\ [][NextList]_vars

(***************************************************************************)
(* get_agenda_url on detail pages put together from links that qualify as  *)
(* agenda links and links that do not.                                     *)
(***************************************************************************)
MaxPageLinks == 3

PageLinks ==
    { [href |-> <<"/","m","1",".","p","d","f">>,
       text |-> <<"M","i","n","u","t","e","s">>],
      [href |-> AgendaPdf, text |-> <<"A","G","E","N","D","A">>],
      [href |-> <<"e","d","i","m","s","/">> \o DocumentCfm \o <<"4","2">>,
       text |-> <<"A","g","e","n","d","a"," ","A","d","d","e","n","d","u","m">>],
      [href |-> <<"/","a","2",".","P","D","F">>,
       text |-> <<"A","g","e","n","d","a">>],
      [href |-> <<"/","a","g","e","n","d","a",".","h","t","m">>,
       text |-> <<"A","g","e","n","d","a">>] }

DetailUrl == urljoin(InfoCenterUrl, MkHref(YearDir, JanDate, RegCode, DotHtm))

InitAgenda ==
    /\ IdleSystem
    /\ fnIn \in [fetch_ok : BOOLEAN,
                 page : UNION {[1..n -> PageLinks] : n \in 0..MaxPageLinks}]
    /\ fnOut = None

ApplyAgenda ==
    /\ fnOut = None
    /\ fnOut' = Some(get_agenda_url(fnIn.fetch_ok, fnIn.page, DetailUrl))
    /\ UNCHANGED <<systemVars, fnIn>>

SpecAgenda == InitAgenda /\ [][ApplyAgenda]_vars

(***************************************************************************)
(* Properties                                                              *)
(***************************************************************************)
StoredIds == {meetings[i].id : i \in DOMAIN meetings}

LoggedIds == {log[k].id : k \in {j \in DOMAIN log : log[j].op # "sleep"}}

Sends(id) == {k \in DOMAIN log : log[k].op = "send" /\ log[k].id = id}

Marks(id) == {k \in DOMAIN log : log[k].op = "mark" /\ log[k].id = id}

\* the ids of the meeting links of a page
PageIds(page) ==
    {extract_meeting_id(page[i].href) :
        i \in {j \in DOMAIN page : HasMeetingLink(page[j].href)}}

\* C1: over all cycles, send_discord_notification is called at most once
\* for a meeting id and notified_at is written at most once for it.
C1_AtMostOnceNotification ==
    \A id \in LoggedIds :
        /\ Cardinality(Sends(id)) <= 1
        /\ Cardinality(Marks(id)) <= 1

\* a later cycle has fetched a listing that still carries a meeting an
\* earlier cycle sent a notification for
C1_Witness ==
    /\ pc[Main] = "done"
    /\ fetched[Main].ok
    /\ \E id \in PageIds(fetched[Main].page) :
           \E k \in Sends(id) : log[k].cycle < cycles

\* C2: a row has notified_at set only if a send_discord_notification call
\* for its id returned success.
C2_NotifiedOnlyOnSuccess ==
    \A i \in DOMAIN meetings :
        meetings[i].notified_at # None =>
            \E k \in Sends(meetings[i].id) : log[k].ok

\* C3: a cycle that fetches the listing page which the cycle before it
\* fetched, and that cycle returned, finds no candidate and leaves the
\* table as it was.
C3_Rerun(p) ==
    /\ pc[p] # "idle"
    /\ prev[p].pc = "done"
    /\ prev[p].fetched.ok
    /\ fetched[p].ok
    /\ fetched[p].page = prev[p].fetched.page

C3_IdempotentDiscovery ==
    \A p \in Procs :
        C3_Rerun(p) =>
            /\ new_meetings[p] = <<>>
            /\ processed[p] = <<>>
            /\ meetings = prev[p].rows

\* the rerun follows a cycle that persisted meetings, one of them with a
\* degraded summary
C3_Witness ==
    /\ C3_Rerun(Main)
    /\ prev[Main].processed > 0
    /\ \E i \in DOMAIN meetings : meetings[i].agenda_url = None

\* C4: every persisted row has a summary of length > 0.
C4_SummaryNonEmpty ==
    \A i \in DOMAIN meetings : Len(meetings[i].summary) > 0

\* C5: when a cycle has ended in which every agenda resolution for meeting
\* A failed with a transport error and meeting B was resolved and saved,
\* both are in the table, and A's row has the agenda-not-available summary
\* and no agenda_url.
ProcessEvents(p, id) ==
    {k \in DOMAIN log :
        /\ log[k].op = "process"
        /\ log[k].proc = p
        /\ log[k].cycle = cycles
        /\ log[k].id = id}

ResolveFailedFor(p, id) ==
    /\ ProcessEvents(p, id) # {}
    /\ \A k \in ProcessEvents(p, id) : log[k].resolve = "transport_error"

SucceededFor(p, id) ==
    \E k \in ProcessEvents(p, id) : log[k].resolve = "found" /\ log[k].saved

AgendaNotAvailableText ==
    <<"A","g","e","n","d","a"," ","n","o","t"," ","y","e","t"," ","a","v",
      "a","i","l","a","b","l","e","."," ","C","h","e","c","k"," ","b","a",
      "c","k"," ","l","a","t","e","r",".">>

C5_Case(p, a, b) ==
    /\ pc[p] \in {"done", "raised"}
    /\ a # b
    /\ ResolveFailedFor(p, a)
    /\ SucceededFor(p, b)

C5_DegradeNotAbort ==
    \A p \in Procs : \A a \in LoggedIds, b \in LoggedIds :
        C5_Case(p, a, b) =>
            /\ b \in StoredIds
            /\ \E i \in DOMAIN meetings :
                   /\ meetings[i].id = a
                   /\ meetings[i].summary = AgendaNotAvailableText
                   /\ meetings[i].agenda_url = None

\* the failing meeting comes first in the candidate list
C5_Witness ==
    /\ Len(new_meetings[Main]) >= 2
    /\ C5_Case(Main, new_meetings[Main][1].id, new_meetings[Main][2].id)

\* C6: no cycle is left by an exception: the create of a stored id is
\* skipped without raising.
C6_DuplicateCreateSkipped == \A p \in Procs : pc[p] # "raised"

\* C7: a cycle whose listing fetch succeeded ends by returning, with every
\* candidate processed and persisted.
C7_EveryCandidatePersisted ==
    \A p \in Procs :
        (pc[p] \in {"done", "raised"} /\ fetched[p].ok) =>
            /\ pc[p] = "done"
            /\ \A i \in DOMAIN new_meetings[p] :
                   new_meetings[p][i].id \in StoredIds

\* C10: after a successful listing fetch, every link of the page built as
\* <prefix>/<8 digits>-<code>.htm whose id was not stored has a candidate;
\* digits that are no calendar date are kept as the date, a code outside
\* the table is kept upper-cased.
ListingPrefixes == {<<>>, YearDir}

ListingDates == {JanDate, BadDate}

ListingCodes == {RegCode, XyzCode}

C10_Expected(p, link, digits, code) ==
    \E j \in DOMAIN new_meetings[p] :
        /\ new_meetings[p][j].id = digits \o <<"-">> \o code
        /\ new_meetings[p][j].url = urljoin(InfoCenterUrl, link.href)
        /\ digits = BadDate => new_meetings[p][j].date = BadDate
        /\ code = XyzCode =>
               new_meetings[p][j].meeting_type = <<"X","Y","Z">>

C10_NoCandidateDiscarded ==
    \A p \in Procs :
        (pc[p] # "idle" /\ fetched[p].ok) =>
            \A i \in DOMAIN fetched[p].page :
                \A prefix \in ListingPrefixes, digits \in ListingDates,
                   code \in ListingCodes :
                    ( /\ fetched[p].page[i].href =
                             MkHref(prefix, digits, code, DotHtm)
                      /\ \A r \in DOMAIN prev[p].rows :
                             prev[p].rows[r].id # digits \o <<"-">> \o code )
                    => C10_Expected(p, fetched[p].page[i], digits, code)

\* a candidate whose digits are no date and whose code is not in the table
C10_Witness ==
    /\ fetched[Main].ok
    /\ \E j \in DOMAIN new_meetings[Main] :
           /\ new_meetings[Main][j].date = BadDate
           /\ new_meetings[Main][j].meeting_type = <<"X","Y","Z">>

(***************************************************************************)
(* Properties of _simple_summary (SpecSummary)                             *)
(***************************************************************************)
QualifyingLines(kinds) == {i \in DOMAIN kinds : kinds[i].body > 20}

\* the k-th smallest element of a set of numbers
NthOf(S, k) == CHOOSE a \in S : Cardinality({b \in S : b < a}) = k - 1

ExpectedBullet(kinds, k) ==
    LET i == NthOf(QualifyingLines(kinds), k)
        n == IF kinds[i].body > 150 THEN 150 ELSE kinds[i].body
    IN  <<DigitChars[k + 1], ".", " ">>
        \o [j \in 1..n |-> IF j = kinds[i].body THEN "!" ELSE LowerChars[i]]
        \o <<".", ".", ".", "\n">>

RECURSIVE ExpectedBullets(_, _, _)
ExpectedBullets(kinds, k, last) ==
    IF k > last THEN <<>>
    ELSE ExpectedBullet(kinds, k) \o ExpectedBullets(kinds, k + 1, last)

BulletCount(out) ==
    Cardinality({i \in DOMAIN out :
        /\ i + 1 <= Len(out)
        /\ out[i] \in Digits
        /\ out[i + 1] = "."
        /\ out[i - 1] = "\n"})

\* C8: the fallback summary is the heading, one numbered bullet for each of
\* the first five lines whose trimmed length exceeds 20, in line order, the
\* trimmed line cut to 150 characters and followed by "...", and the
\* disclaimer; 7 lines of which 4 qualify give 4 bullets.
C8_FallbackCorrect ==
    fnOut # None =>
        LET q == Cardinality(QualifyingLines(fnIn))
            last == IF q > 5 THEN 5 ELSE q
        IN  /\ fnOut[1] = SummaryHeading
                          \o ExpectedBullets(fnIn, 1, last)
                          \o SummaryDisclaimer
            /\ BulletCount(fnOut[1]) = last
            /\ (Len(fnIn) = 7 /\ q = 4) => BulletCount(fnOut[1]) = 4

\* 7 lines, 4 of them qualifying, one of these longer than 150
C8_Witness ==
    /\ fnOut # None
    /\ Len(fnIn) = 7
    /\ Cardinality(QualifyingLines(fnIn)) = 4
    /\ \E i \in DOMAIN fnIn : fnIn[i].body > 150

(***************************************************************************)
(* Properties of the listing parse (SpecParse)                             *)
(***************************************************************************)
CalendarDates == {JanDate, LeapDate}

Dashed(digits) ==
    SubSeq(digits, 1, 4) \o <<"-">> \o SubSeq(digits, 5, 6) \o <<"-">>
    \o SubSeq(digits, 7, 8)

C9_Case ==
    /\ fnOut # None
    /\ fnIn.suffix = DotHtm
    /\ fnIn.code # <<>>
    /\ fnIn.digits \in CalendarDates

\* C9: a link ending in /<8 digits>-<code>.htm gives one candidate with id
\* <8 digits>-<code>, the date as YYYY-MM-DD and the label of the code
\* table; /20260122-reg.htm gives 20260122-reg, 2026-01-22 and
\* 'Regular Meeting'; the code xyz gives the label 'XYZ'.
C9_IdParsing ==
    C9_Case =>
        /\ Len(fnOut[1]) = 1
        /\ fnOut[1][1].id = fnIn.digits \o <<"-">> \o fnIn.code
        /\ fnOut[1][1].date = Dashed(fnIn.digits)
        /\ \A i \in DOMAIN type_map :
               fnIn.code = type_map[i].code =>
                   fnOut[1][1].meeting_type = type_map[i].label
        /\ (fnIn.digits = JanDate /\ fnIn.code = RegCode) =>
               /\ fnOut[1][1].id =
                      <<"2","0","2","6","0","1","2","2","-","r","e","g">>
               /\ fnOut[1][1].date =
                      <<"2","0","2","6","-","0","1","-","2","2">>
               /\ fnOut[1][1].meeting_type =
                      <<"R","e","g","u","l","a","r"," ",
                        "M","e","e","t","i","n","g">>
        /\ fnIn.code = XyzCode =>
               fnOut[1][1].meeting_type = <<"X","Y","Z">>

C9_Witness ==
    /\ C9_Case
    /\ fnIn.prefix = <<>>
    /\ fnIn.digits = JanDate
    /\ fnIn.code = RegCode

(***************************************************************************)
(* Properties of the prompt (SpecTruncate)                                 *)
(***************************************************************************)
\* the character at position i of a text given by its runs
RECURSIVE RunCharAt(_, _)
RunCharAt(runs, i) ==
    IF i <= Head(runs).count THEN Head(runs).char
    ELSE RunCharAt(Tail(runs), i - Head(runs).count)

\* the positions where a run of the text starts
RunStarts(runs) ==
    {RunsLen(SubSeq(runs, 1, k)) + 1 : k \in 0..Len(runs)}

\* a is the first RunsLen(a) characters of b; both are constant between
\* two run starts, so they agree everywhere iff they agree at each start
IsPrefixText(a, b) ==
    /\ RunsLen(a) <= RunsLen(b)
    /\ \A i \in RunStarts(a) \cup RunStarts(b) :
           i <= RunsLen(a) => RunCharAt(a, i) = RunCharAt(b, i)

\* C11: the agenda text summarize_agenda sends to Gemini is the first
\* min(len(text), 100000) characters of its input: an input of 150,000
\* characters is cut to its first 100,000, a shorter one is sent whole.
C11_Truncation ==
    (gemini_model /\ fnOut # None) =>
        /\ fnOut[1] # None
        /\ RunsLen(fnOut[1][1]) = Min(RunsLen(fnIn), 100000)
        /\ IsPrefixText(fnOut[1][1], fnIn)

\* a text of 150,000 characters of both letters was cut to 100,000
C11_Witness ==
    /\ gemini_model
    /\ fnOut # None
    /\ fnOut[1] # None
    /\ RunsLen(fnIn) = 150000
    /\ RunsLen(fnOut[1][1]) = 100000
    /\ \E i, j \in DOMAIN fnIn : fnIn[i].char # fnIn[j].char

(***************************************************************************)
(* Properties of summarize_agenda (SpecSummarize)                          *)
(***************************************************************************)
\* C12: Gemini is called only on a monitor that was constructed with a key
\* (and the library); on any other monitor summarize_agenda returns the
\* fallback summary; and when generate_content raises, summarize_agenda
\* returns _simple_summary of the same text.
C12_SelectionAndFallback ==
    fnOut # None =>
        /\ fnOut[1].called => (fnIn.key # None /\ fnIn.avail)
        /\ ~(fnIn.key # None /\ fnIn.avail) =>
               fnOut[1].result = simple_summary(RenderText(fnIn.kinds))
        /\ (fnOut[1].called /\ ~fnIn.reply.ok) =>
               fnOut[1].result = simple_summary(RenderText(fnIn.kinds))

\* generate_content was called on a text with a qualifying line, raised,
\* and the fallback summary came back
C12_Witness ==
    /\ fnOut # None
    /\ fnOut[1].called
    /\ ~fnIn.reply.ok
    /\ QualifyingLines(fnIn.kinds) # {}
    /\ fnOut[1].result = simple_summary(RenderText(fnIn.kinds))

(***************************************************************************)
(* Properties of the stored rows (Spec)                                    *)
(***************************************************************************)
\* C13: in every step, a row whose notified_at is set keeps that value:
\* notified_at goes from absent to present at most once for an id and is
\* never cleared or overwritten afterwards.
C13_NotifiedAtMonotone ==
    [][\A i \in DOMAIN meetings :
           meetings[i].notified_at # None =>
               /\ i \in DOMAIN meetings'
               /\ meetings'[i].id = meetings[i].id
               /\ meetings'[i].notified_at = meetings[i].notified_at]_vars

\* a row was marked, and a later UPDATE marked another row
C13_Witness ==
    \E i, j \in DOMAIN meetings :
        /\ meetings[i].notified_at # None
        /\ meetings[j].notified_at # None
        /\ meetings[i].notified_at[1] < meetings[j].notified_at[1]
        /\ \E k \in Marks(meetings[i].id) :
               log[k].at = meetings[i].notified_at[1]

\* C14: in every step, each stored row stays in the table with its id,
\* date, meeting_type, url and discovered_at; agenda_url, summary and
\* notified_at change only from absent to present.
C14_AppendMostly ==
    [][\A i \in DOMAIN meetings :
           /\ i \in DOMAIN meetings'
           /\ meetings'[i].id = meetings[i].id
           /\ meetings'[i].date = meetings[i].date
           /\ meetings'[i].meeting_type = meetings[i].meeting_type
           /\ meetings'[i].url = meetings[i].url
           /\ meetings'[i].discovered_at = meetings[i].discovered_at
           /\ meetings'[i].agenda_url # meetings[i].agenda_url =>
                  meetings[i].agenda_url = None
           /\ meetings'[i].summary # meetings[i].summary =>
                  meetings[i].summary = <<>>
           /\ meetings'[i].notified_at # meetings[i].notified_at =>
                  meetings[i].notified_at = None]_vars

\* a row of an earlier cycle is stored and a later cycle has inserted a
\* row and set its notified_at
C14_Witness ==
    \E i, j \in DOMAIN meetings :
        /\ i < j
        /\ meetings[j].notified_at # None
        /\ \E k, l \in DOMAIN log :
               /\ log[k].op = "process" /\ log[k].id = meetings[i].id
               /\ log[l].op = "mark" /\ log[l].id = meetings[j].id
               /\ log[k].cycle < log[l].cycle

(***************************************************************************)
(* Properties of the table reads (SpecList)                                *)
(***************************************************************************)
RowIndex(id) == CHOOSE i \in DOMAIN meetings : meetings[i].id = id

\* the term occurs in the text, letters compared without regard to case
ContainsTerm(text, term) == Contains(Lower(text), Lower(term))

\* C15: a read returns at most limit stored records, a greater date before
\* a smaller one and records of one date in insertion order; with a search
\* term, only records whose meeting type or summary contains the term.
C15_ListRecent ==
    fnOut # None =>
        LET out == fnOut[1]
        IN  /\ fnIn.limit # None => Len(out) <= fnIn.limit[1]
            /\ \A i \in DOMAIN out :
                   \E k \in DOMAIN meetings : out[i] = Selected(meetings[k])
            /\ \A i, j \in DOMAIN out :
                   i < j =>
                       /\ ~TextLess(out[i].date, out[j].date)
                       /\ out[i].date = out[j].date =>
                              RowIndex(out[i].id) < RowIndex(out[j].id)
            /\ fnIn.search_term # None =>
                   \A i \in DOMAIN out :
                       \/ ContainsTerm(out[i].meeting_type, fnIn.search_term)
                       \/ ContainsTerm(out[i].summary, fnIn.search_term)

(***************************************************************************)
(* Properties of get_agenda_url (SpecAgenda)                               *)
(***************************************************************************)
\* the link text contains 'agenda' in any case and the target ends in
\* .pdf or carries document.cfm?id=
Qualifies(link) ==
    /\ \E i \in 1..Len(link.text) :
           i + 5 <= Len(link.text)
           /\ Lower(SubSeq(link.text, i, i + 5)) = <<"a","g","e","n","d","a">>
    /\ \/ /\ Len(link.href) >= 4
          /\ SubSeq(link.href, Len(link.href) - 3, Len(link.href))
                 = <<".","p","d","f">>
       \/ \E i \in 1..Len(link.href) :
              i + 15 <= Len(link.href)
              /\ SubSeq(link.href, i, i + 15) = DocumentCfm

\* C16: get_agenda_url returns the joined URL of the first link of the
\* page that qualifies, whatever qualifying links follow it, and absent
\* when the fetch fails or no link qualifies.
C16_FirstAgendaLink ==
    fnOut # None =>
        LET page == fnIn.page
            hits == {i \in DOMAIN page : Qualifies(page[i])}
        IN  IF fnIn.fetch_ok /\ hits # {}
            THEN \E i \in hits :
                     /\ \A j \in hits : i <= j
                     /\ fnOut[1] = urljoin(DetailUrl, page[i].href)
            ELSE fnOut[1] = None

\* two different qualifying links on a fetched page, after a link that
\* does not qualify: the first of the two was returned
C16_Witness ==
    /\ fnOut # None
    /\ fnIn.fetch_ok
    /\ Len(fnIn.page) = 3
    /\ ~Qualifies(fnIn.page[1])
    /\ Qualifies(fnIn.page[2]) /\ Qualifies(fnIn.page[3])
    /\ fnIn.page[2] # fnIn.page[3]
    /\ fnOut[1] = urljoin(DetailUrl, fnIn.page[2].href)

(***************************************************************************)
(* Properties of the order of steps within a cycle (Spec)                  *)
(***************************************************************************)
SameCycle(k, l) == log[k].proc = log[l].proc /\ log[k].cycle = log[l].cycle

\* C17: between two notification dispatches of one cycle the cycle has
\* executed time.sleep, whatever the outcome of each meeting's steps.
C17_Pacing ==
    \A k, l \in DOMAIN log :
        (k < l /\ log[k].op = "send" /\ log[l].op = "send" /\ SameCycle(k, l))
            => \E m \in (k + 1)..(l - 1) :
                   log[m].op = "sleep" /\ SameCycle(k, m)

\* a cycle dispatched two notifications, the first of which failed
C17_Witness ==
    \E k, l \in DOMAIN log :
        /\ k < l
        /\ log[k].op = "send" /\ log[l].op = "send"
        /\ SameCycle(k, l)
        /\ ~log[k].ok

\* a is the beginning of b
IsPrefixOf(a, b) == Len(a) <= Len(b) /\ a = SubSeq(b, 1, Len(a))

\* C18: a notification for an id is dispatched only after the cycle has
\* saved a row with that id, and it carries a prefix of the summary stored
\* for the id; after a save that failed, the cycle dispatches no
\* notification for that meeting.
C18_PersistPrecedesNotify ==
    /\ \A l \in DOMAIN log :
           log[l].op = "send" =>
               /\ \E k \in 1..(l - 1) :
                      /\ log[k].op = "process" /\ log[k].saved
                      /\ log[k].id = log[l].id /\ SameCycle(k, l)
               /\ \E i \in DOMAIN meetings :
                      /\ meetings[i].id = log[l].id
                      /\ IsPrefixOf(log[l].value, meetings[i].summary)
    /\ \A k \in DOMAIN log :
           (log[k].op = "process" /\ ~log[k].saved) =>
               ~\E l \in (k + 1)..Len(log) :
                    log[l].op = "send" /\ SameCycle(k, l)

\* a notification carried the first 1000 characters of a longer stored
\* summary, and a later save of the cycle failed
C18_Witness ==
    \E l, k \in DOMAIN log :
        /\ log[l].op = "send"
        /\ Len(log[l].value) = 1000
        /\ \E i \in DOMAIN meetings :
               meetings[i].id = log[l].id /\ Len(meetings[i].summary) > 1000
        /\ log[k].op = "process" /\ ~log[k].saved
        /\ l < k

\* the ids of the rows process p saved in the cycle it runs, in the order
\* of the saves
RECURSIVE SavedIds(_, _)
SavedIds(p, n) ==
    IF n = 0 THEN <<>>
    ELSE SavedIds(p, n - 1)
         \o (IF /\ log[n].op = "process" /\ log[n].saved
                /\ log[n].proc = p /\ log[n].cycle = cycles
             THEN <<log[n].id>> ELSE <<>>)

\* the position of the first link of the page that carries the id
ListingPosition(page, id) ==
    CHOOSE i \in DOMAIN page :
        /\ extract_meeting_id(page[i].href) = id
        /\ \A j \in 1..(i - 1) : extract_meeting_id(page[j].href) # id

\* C19: a cycle that returns, returns one entry for each row it created,
\* with the fields of that row, in the order of the listing page; the
\* value is empty iff the cycle created no row.
C19_TerminalOutcome ==
    pc[Main] = "done" =>
        LET out == returned[Main]
            ids == SavedIds(Main, Len(log))
        IN  /\ [i \in DOMAIN out |-> out[i].id] = ids
            /\ \A i \in DOMAIN out :
                   \E k \in DOMAIN meetings :
                       /\ meetings[k].id = out[i].id
                       /\ meetings[k].date = out[i].date
                       /\ meetings[k].meeting_type = out[i].meeting_type
                       /\ meetings[k].url = out[i].url
                       /\ meetings[k].agenda_url = out[i].agenda_url
                       /\ meetings[k].summary = out[i].summary
            /\ \A i, j \in DOMAIN out :
                   i < j => ListingPosition(fetched[Main].page, out[i].id)
                            < ListingPosition(fetched[Main].page, out[j].id)
            /\ (out = <<>>) <=> (ids = <<>>)

\* the second cycle returned the two meetings it saved, after a first
\* cycle that returned none
C19_Witness ==
    /\ pc[Main] = "done"
    /\ cycles = 2
    /\ prev[Main].pc = "done" /\ prev[Main].processed = 0
    /\ Len(returned[Main]) = 2
    /\ Len(meetings) = 2

\* the events of the cycle process p runs
CycleEvents(p) ==
    {k \in DOMAIN log : log[k].proc = p /\ log[k].cycle = cycles}

\* C20: a cycle whose fetch of the listing page fails returns the empty
\* sequence and has processed, notified and marked nothing: the table is
\* what it was when the cycle started.
C20_DiscoveryFailureAborts ==
    (pc[Main] # "idle" /\ ~fetched[Main].ok) =>
        /\ pc[Main] = "done"
        /\ returned[Main] = <<>>
        /\ CycleEvents(Main) = {}
        /\ meetings = prev[Main].rows

\* the fetch failed in a cycle that started with a row in the table and a
\* listing page carrying a meeting that is not stored
C20_Witness ==
    /\ pc[Main] = "done"
    /\ ~fetched[Main].ok
    /\ meetings # <<>>
    /\ \E i \in DOMAIN listing :
           extract_meeting_id(listing[i].href) \notin StoredIds

\* the cycle of process p has called process_new_meeting on candidate c
Processed(p, c) ==
    \E m \in CycleEvents(p) :
        log[m].op = "process" /\ log[m].id = new_meetings[p][c].id

\* C21: after a send_discord_notification call that failed, the row of the
\* meeting holds the id, date, type, url, agenda_url and summary that
\* process_new_meeting saved, no exception has left the call, and the
\* cycle goes on to the next candidate.
C21_NotificationFailureIsolated ==
    \A l \in CycleEvents(Main) :
        (log[l].op = "send" /\ ~log[l].ok) =>
            /\ \E i \in DOMAIN meetings, k \in DOMAIN processed[Main] :
                   /\ meetings[i].id = log[l].id
                   /\ processed[Main][k].id = log[l].id
                   /\ meetings[i].date = processed[Main][k].date
                   /\ meetings[i].meeting_type
                          = processed[Main][k].meeting_type
                   /\ meetings[i].url = processed[Main][k].url
                   /\ meetings[i].agenda_url = processed[Main][k].agenda_url
                   /\ meetings[i].summary = processed[Main][k].summary
            /\ pc[Main] = "raised" =>
                   \E m \in CycleEvents(Main) :
                       m > l /\ log[m].op = "process" /\ ~log[m].saved
            /\ pc[Main] = "done" =>
                   \A c \in DOMAIN new_meetings[Main] : Processed(Main, c)

\* the notification of the first of two candidates failed and the cycle
\* has saved the second
C21_Witness ==
    \E l, m \in CycleEvents(Main) :
        /\ log[l].op = "send" /\ ~log[l].ok
        /\ l < m
        /\ log[m].op = "process" /\ log[m].saved
        /\ log[m].id # log[l].id

\* C22: on a monitor without a PDF library no cycle processes a meeting and
\* no row is stored with the summary that stands for a failed extraction.
C22_MissingBackendIsStartupError ==
    PDF_LIBRARY = None =>
        /\ \A k \in DOMAIN log : log[k].op # "process"
        /\ \A i \in DOMAIN meetings : meetings[i].summary # ExtractFailed

\* the row a process event saved
SavedBy(k) == meetings[CHOOSE i \in DOMAIN meetings : meetings[i].id = log[k].id]

\* C23: the row a process_new_meeting call saved tells the stage that
\* failed: agenda_url is absent iff the resolution gave no URL, and the
\* summary is then 'Agenda not yet available...'; after a failed download
\* the row has the agenda_url and 'Failed to download agenda PDF'; after an
\* extraction without text it has the agenda_url and 'Unable to extract
\* text from agenda PDF'; summarize_agenda is called only on extracted text.
C23_OutcomeIdentifiesStage ==
    \A k \in DOMAIN log :
        (log[k].op = "process" /\ log[k].saved) =>
            /\ SavedBy(k).agenda_url = None <=> log[k].resolve # "found"
            /\ log[k].resolve # "found" =>
                   SavedBy(k).summary = AgendaNotAvailable
            /\ log[k].download = "failed" =>
                   /\ SavedBy(k).agenda_url # None
                   /\ SavedBy(k).summary = DownloadFailed
            /\ log[k].extract = "no_text" =>
                   /\ SavedBy(k).agenda_url # None
                   /\ SavedBy(k).summary = ExtractFailed
            /\ log[k].summarized => log[k].extract = "text"

\* two calls saved their rows, one after a failed download and one after
\* an extraction without text
C23_Witness ==
    /\ \E k, l \in DOMAIN log :
           /\ log[k].op = "process" /\ log[k].saved
           /\ log[k].download = "failed"
           /\ log[l].op = "process" /\ log[l].saved
           /\ log[l].extract = "no_text"
    /\ \E i, j \in DOMAIN meetings :
           /\ meetings[i].summary = DownloadFailed
           /\ meetings[j].summary = ExtractFailed

(***************************************************************************)
(* Properties of two monitors on one table (SpecConcurrent)                *)
(***************************************************************************)
\* the process_new_meeting calls that saved the row of a meeting
Saves(id) ==
    {k \in DOMAIN log : log[k].op = "process" /\ log[k].id = id /\ log[k].saved}

\* C24: with two run_check_cycle executions interleaved on one table and
\* one listing page, no two rows share an id, the row of each stored id was
\* saved by exactly one process_new_meeting call, at most one notification
\* is dispatched for an id, and only by the cycle that saved its row, after
\* the save; the cycle whose INSERT fails dispatches nothing for that id.
C24_ConcurrentCycles ==
    /\ \A i, j \in DOMAIN meetings :
           meetings[i].id = meetings[j].id => i = j
    /\ \A id \in StoredIds : Cardinality(Saves(id)) = 1
    /\ \A id \in LoggedIds :
           /\ Cardinality(Sends(id)) <= 1
           /\ \A k \in Sends(id) :
                  \E j \in Saves(id) : j < k /\ log[j].proc = log[k].proc

\* both cycles called process_new_meeting for one meeting: the INSERT of one
\* succeeded and its notification was dispatched, the INSERT of the other
\* failed
C24_Witness ==
    \E k, l \in DOMAIN log :
        /\ log[k].op = "process" /\ log[l].op = "process"
        /\ log[k].id = log[l].id
        /\ log[k].proc # log[l].proc
        /\ log[k].saved /\ ~log[l].saved
        /\ Sends(log[k].id) # {}
        /\ pc[log[l].proc] = "raised"

====
